---- MODULE Spec2Model ----
(***************************************************************************)
(* PrimeNumberFinder (src/soe/PrimeNumberFinder.cpp): the analysis stage   *)
(* of the segmented sieve.  The constructor builds two lookup tables from  *)
(* the bitmask catalogue; analyseSieve() counts and/or reconstructs the    *)
(* primes and prime k-tuplets of one sieved segment and reports progress.  *)
(***************************************************************************)
EXTENDS Integers, Sequences, FiniteSets, TLC

VARIABLES
  flags_,            \* primeSieve_->flags_
  constructed,       \* TRUE once PrimeNumberFinder::PrimeNumberFinder has run
  primeByteCounts_,  \* uint32_t** primeByteCounts_ (<<>> models NULL)
  primeBitValues_,   \* uint32_t** primeBitValues_  (<<>> models NULL)
  counts_,           \* primeSieve_->counts_[COUNTS_SIZE]
                     \* (arrays are sequences: a[i] of the code is a[i + 1])
  log,               \* calls and effects in program order: analyseSieve,
                     \* count, generate, counter writes, callbacks, lines
                     \* written to std::cout, doStatus reports
  shared,            \* two-thread harness: do both threads use one counts_ ?
  tseg,              \* two-thread harness: the segment of each thread
  tpc,               \* two-thread harness: position of each thread in count()
  tclass,            \* two-thread harness: class index i of the loop at 141
  treg,              \* two-thread harness: value loaded by the pending +=
  tcounts,           \* two-thread harness: counts_ of each PrimeSieve instance
  merged             \* two-thread harness: totals merged after both finished

vars == <<flags_, constructed, primeByteCounts_, primeBitValues_, counts_,
          log, shared, tseg, tpc, tclass, treg, tcounts, merged>>

finderVars == <<flags_, constructed, primeByteCounts_, primeBitValues_,
                counts_, log>>

threadVars == <<shared, tseg, tpc, tclass, treg, tcounts, merged>>

-----------------------------------------------------------------------------
(* Constants of the translation unit and of the headers it includes.       *)

BYTE_SIZE == 256

END == BYTE_SIZE

COUNTS_SIZE == 7

NUMBERS_PER_BYTE == 30

NULL == <<>>

\* PrimeSieve.h: the flag bits.  COUNT_PRIMES << i and PRINT_PRIMES << i are
\* the two ladders "prime .. septuplet" the code walks.
COUNT_PRIMES == 1

COUNT_FLAGS == 127

PRINT_PRIMES == 128

PRINT_FLAGS == 16256

CALLBACK_PRIMES == 1048576

CALLBACK_PRIMES_OOP == 2097152

SSE4_POPCNT == 4194304

GENERATE_FLAGS == PRINT_FLAGS + CALLBACK_PRIMES + CALLBACK_PRIMES_OOP

\* SieveOfEratosthenes::bitValues_: the offset bound to each residue slot.
bitValues_ == <<7, 11, 13, 17, 19, 23, 29, 31>>

\* nextBitValue_ with the successor of 19 given as 29.
nextBitValue_Skipping ==
  <<0,
    0, 0, 0, 0, 0, 0,
    11, 0, 0, 0, 13, 0,
    17, 0, 0, 0, 19, 0,
    29, 0, 0, 0, 29, 0,
    0, 0, 0, 0, 31>>

\* PrimeNumberFinder::nextBitValue_[NUMBERS_PER_BYTE], indices 0..29.
nextBitValue_ ==
  <<0,
    0, 0, 0, 0, 0, 0,
    11, 0, 0, 0, 13, 0,
    17, 0, 0, 0, 19, 0,
    23, 0, 0, 0, 29, 0,
    0, 0, 0, 0, 31>>

\* bitmasks with the first two twin bitmasks exchanged.
bitmasksDisordered ==
  << <<1, 2, 4, 8, 16, 32, 64, 128, END>>,
     <<24, 6, 192, END, 0, 0, 0, 0, 0>>,
     <<7, 14, 28, 56, END, 0, 0, 0, 0>>,
     <<30, END, 0, 0, 0, 0, 0, 0, 0>>,
     <<31, 62, END, 0, 0, 0, 0, 0, 0>>,
     <<63, END, 0, 0, 0, 0, 0, 0, 0>>,
     <<254, END, 0, 0, 0, 0, 0, 0, 0>> >>

\* bitmasks[COUNTS_SIZE][9]; the elements after END are zero-initialized.
bitmasks ==
  << <<1, 2, 4, 8, 16, 32, 64, 128, END>>,
     <<6, 24, 192, END, 0, 0, 0, 0, 0>>,
     <<7, 14, 28, 56, END, 0, 0, 0, 0>>,
     <<30, END, 0, 0, 0, 0, 0, 0, 0>>,
     <<31, 62, END, 0, 0, 0, 0, 0, 0>>,
     <<63, END, 0, 0, 0, 0, 0, 0, 0>>,
     <<254, END, 0, 0, 0, 0, 0, 0, 0>> >>

-----------------------------------------------------------------------------
(* Bit operations on unsigned integers.                                    *)

\* a & b
RECURSIVE And(_, _)
And(a, b) ==
  IF a = 0 \/ b = 0 THEN 0
  ELSE (a % 2) * (b % 2) + 2 * And(a \div 2, b \div 2)

\* a | b
Or(a, b) == a + b - And(a, b)

\* a << n
RECURSIVE Shl(_, _)
Shl(a, n) == IF n = 0 THEN a ELSE Shl(2 * a, n - 1)

\* ntz(x): the number of trailing zero bits of x, x # 0
RECURSIVE ntz(_)
ntz(x) == IF x % 2 = 1 THEN 0 ELSE 1 + ntz(x \div 2)

\* The 8 bits of a byte, least significant first.
Bits(byte) == [k \in 1..8 |-> (byte \div Shl(1, k - 1)) % 2]

-----------------------------------------------------------------------------
(* initLookupTables(), lines 70-118.                                        *)

\* bitmaskCountLoop with the exit test "*b < j" for "*b <= j".
RECURSIVE bitmaskCountLoopStrict(_, _, _, _)
bitmaskCountLoopStrict(i, j, b, bitmaskCount) ==
  IF bitmasks[i + 1][b + 1] < j
  THEN bitmaskCountLoopStrict(i, j, b + 1,
         IF And(j, bitmasks[i + 1][b + 1]) = bitmasks[i + 1][b + 1]
         THEN bitmaskCount + 1 ELSE bitmaskCount)
  ELSE bitmaskCount

\* Lines 89-94: the scan of bitmasks[i] for byte value j, from element b on.
RECURSIVE bitmaskCountLoop(_, _, _, _)
bitmaskCountLoop(i, j, b, bitmaskCount) ==
  IF bitmasks[i + 1][b + 1] <= j
  THEN bitmaskCountLoop(i, j, b + 1,
         IF And(j, bitmasks[i + 1][b + 1]) = bitmasks[i + 1][b + 1]
         THEN bitmaskCount + 1 ELSE bitmaskCount)
  ELSE bitmaskCount

\* Lines 87-95 for every class: the table a class gets when it is enabled.
byteCountTables ==
  [i \in 1..COUNTS_SIZE |->
     [j \in 1..BYTE_SIZE |-> bitmaskCountLoop(i - 1, j - 1, 0, 0)]]

\* Lines 82-98.
buildPrimeByteCounts(flags) ==
  IF And(flags, COUNT_FLAGS) # 0
  THEN [i \in 1..COUNTS_SIZE |->
          IF And(flags, Shl(COUNT_PRIMES, i - 1)) # 0
          THEN byteCountTables[i] ELSE NULL]
  ELSE NULL

\* Lines 104-107: the index of the lowest PRINT flag set, 0 without one.
RECURSIVE generateTypeLoop(_, _, _)
generateTypeLoop(flags, i, generateType) ==
  IF And(i, flags) = 0
  THEN generateTypeLoop(flags, 2 * i, generateType + 1)
  ELSE generateType

generateTypeOf(flags) ==
  IF And(flags, PRINT_FLAGS) # 0
  THEN generateTypeLoop(flags, PRINT_PRIMES, 0)
  ELSE 0

\* bitValuesLoop storing bitValues_[position of the bitmask in its list] for
\* bitValues_[ntz(bitmask)].
RECURSIVE bitValuesLoopByPosition(_, _, _, _)
bitValuesLoopByPosition(generateType, i, b, row) ==
  IF bitmasks[generateType + 1][b + 1] <= i
  THEN bitValuesLoopByPosition(generateType, i, b + 1,
         IF And(i, bitmasks[generateType + 1][b + 1])
              = bitmasks[generateType + 1][b + 1]
         THEN Append(row, bitValues_[b + 1])
         ELSE row)
  ELSE Append(row, END)

\* Lines 110-115: the row of byte value i; row holds the slots written so
\* far, so Len(row) is bitmaskCount.  The slots after END stay unwritten.
RECURSIVE bitValuesLoop(_, _, _, _)
bitValuesLoop(generateType, i, b, row) ==
  IF bitmasks[generateType + 1][b + 1] <= i
  THEN bitValuesLoop(generateType, i, b + 1,
         IF And(i, bitmasks[generateType + 1][b + 1])
              = bitmasks[generateType + 1][b + 1]
         THEN Append(row, bitValues_[ntz(bitmasks[generateType + 1][b + 1]) + 1])
         ELSE row)
  ELSE Append(row, END)

\* Lines 108-116 for every generateType.
bitValueTables ==
  [g \in 1..COUNTS_SIZE |->
     [i \in 1..BYTE_SIZE |-> bitValuesLoop(g - 1, i - 1, 0, <<>>)]]

\* Lines 102-117.
buildPrimeBitValues(flags) ==
  IF And(flags, GENERATE_FLAGS) # 0
  THEN bitValueTables[generateTypeOf(flags) + 1]
  ELSE NULL

-----------------------------------------------------------------------------
(* Configurations.  PrimeSieve hands the finder either user flags (count   *)
(* and print bits, at least one) or one of the two callback flags.         *)

MaxCountFlags == 2

MaxPrintFlags == 2

Ladder == 0..(COUNTS_SIZE - 1)

RECURSIVE FlagSum(_, _)
FlagSum(base, S) ==
  IF S = {} THEN 0
  ELSE LET k == CHOOSE x \in S : TRUE
       IN Shl(base, k) + FlagSum(base, S \ {k})

UserFlags(maxCount, maxPrint) ==
  { FlagSum(COUNT_PRIMES, C) + FlagSum(PRINT_PRIMES, P) :
      <<C, P>> \in { cp \in (SUBSET Ladder) \X (SUBSET Ladder) :
                       /\ Cardinality(cp[1]) <= maxCount
                       /\ Cardinality(cp[2]) <= maxPrint
                       /\ cp[1] \cup cp[2] # {} } }

TableConfigs ==
  UserFlags(MaxCountFlags, MaxPrintFlags)
    \cup {CALLBACK_PRIMES, CALLBACK_PRIMES_OOP}

-----------------------------------------------------------------------------
(* The constructor, lines 45-55.  isPOPCNTSupported() is a property of the *)
(* machine: an input.                                                       *)

PrimeNumberFinder(isPOPCNTSupported) ==
  /\ ~constructed
  /\ LET f == IF isPOPCNTSupported THEN Or(flags_, SSE4_POPCNT) ELSE flags_
     IN /\ flags_' = f
        /\ primeByteCounts_' = buildPrimeByteCounts(f)
        /\ primeBitValues_' = buildPrimeBitValues(f)
  /\ constructed' = TRUE
  /\ UNCHANGED <<counts_, log>>
  /\ UNCHANGED threadVars

IdleThreads ==
  /\ shared = FALSE
  /\ tseg = <<>>
  /\ tpc = <<>>
  /\ tclass = <<>>
  /\ treg = <<>>
  /\ tcounts = <<>>
  /\ merged = <<>>

InitFinder(configs) ==
  /\ flags_ \in configs
  /\ constructed = FALSE
  /\ primeByteCounts_ = NULL
  /\ primeBitValues_ = NULL
  /\ counts_ = [i \in 1..COUNTS_SIZE |-> 0]
  /\ log = <<>>
  /\ IdleThreads

InitTables == InitFinder(TableConfigs)

NextTables == \E hw \in BOOLEAN : PrimeNumberFinder(hw)

SpecTables == InitTables /\ [][NextTables]_vars

-----------------------------------------------------------------------------
(* count(), lines 124-150.                                                  *)

\* a[i] of the code, for an array a
At(a, i) == a[i + 1]

\* POPCNT64(sieve, i): the population count of the 64-bit word that the 8
\* bytes sieve[i] .. sieve[i + 7] form.
POPCNT64(sieve, i) ==
  LET word == [n \in 0..63 |-> Bits(At(sieve, i + (n \div 8)))[(n % 8) + 1]]
  IN Cardinality({n \in 0..63 : word[n] = 1})

\* popcntLoop with "primeCount = POPCNT64(sieve, i)" for "+=".
RECURSIVE popcntLoopAssign(_, _, _, _)
popcntLoopAssign(sieve, sieveSize, i, primeCount) ==
  IF i + 8 < sieveSize
  THEN popcntLoopAssign(sieve, sieveSize, i + 8, POPCNT64(sieve, i))
  ELSE <<i, primeCount>>

\* popcntLoop with the test "i + 8 <= sieveSize" for "i + 8 < sieveSize".
RECURSIVE popcntLoopInclusive(_, _, _, _)
popcntLoopInclusive(sieve, sieveSize, i, primeCount) ==
  IF i + 8 <= sieveSize
  THEN popcntLoopInclusive(sieve, sieveSize, i + 8,
                           primeCount + POPCNT64(sieve, i))
  ELSE <<i, primeCount>>

\* Lines 132-133: returns <<i, primeCount>> as the loop leaves them.
RECURSIVE popcntLoop(_, _, _, _)
popcntLoop(sieve, sieveSize, i, primeCount) ==
  IF i + 8 < sieveSize
  THEN popcntLoop(sieve, sieveSize, i + 8, primeCount + POPCNT64(sieve, i))
  ELSE <<i, primeCount>>

\* tableLoop with the test "j + 1 < sieveSize" for "j < sieveSize".
RECURSIVE tableLoopShort(_, _, _, _, _)
tableLoopShort(table, sieve, sieveSize, j, count) ==
  IF j + 1 < sieveSize
  THEN tableLoopShort(table, sieve, sieveSize, j + 1,
                      count + At(table, At(sieve, j)))
  ELSE count

\* Lines 136-137 and 144-146: the per-byte table loop of class c from j on.
RECURSIVE tableLoop(_, _, _, _, _)
tableLoop(table, sieve, sieveSize, j, count) ==
  IF j < sieveSize
  THEN tableLoop(table, sieve, sieveSize, j + 1, count + At(table, At(sieve, j)))
  ELSE count

\* Lines 129-134: where the chunk loop stops and what it has counted.
afterPopcnt(flags, sieve, sieveSize) ==
  IF And(flags, SSE4_POPCNT) # 0
  THEN popcntLoop(sieve, sieveSize, 0, 0)
  ELSE <<0, 0>>

\* Lines 127-137: primeCount as line 138 adds it.
primeCountOf(flags, tables, sieve, sieveSize) ==
  LET p == afterPopcnt(flags, sieve, sieveSize)
  IN tableLoop(At(tables, 0), sieve, sieveSize, p[1], p[2])

\* Lines 143-146: kTupletCount as line 147 adds it.
kTupletCountOf(tables, i, sieve, sieveSize) ==
  tableLoop(At(tables, i), sieve, sieveSize, 0, 0)

\* The classes count() adds to, in the order it does: line 126, then 141-142.
countedClasses(flags) ==
  SelectSeq([k \in 1..COUNTS_SIZE |-> k - 1],
            LAMBDA i : And(flags, Shl(COUNT_PRIMES, i)) # 0)

\* What one call adds to counts_[i].
countAdded(flags, tables, i, sieve, sieveSize) ==
  IF i = 0
  THEN primeCountOf(flags, tables, sieve, sieveSize)
  ELSE kTupletCountOf(tables, i, sieve, sieveSize)

\* The writes "counts_[i] += n" of one call, in order.
countWrites(flags, tables, sieve, sieveSize) ==
  LET cs == countedClasses(flags)
  IN [k \in 1..Len(cs) |->
        [op |-> "counts_", class |-> cs[k],
         add |-> countAdded(flags, tables, cs[k], sieve, sieveSize)]]

\* applyWrites with "counts_[i] = n" for "counts_[i] += n".
RECURSIVE applyWritesAssign(_, _)
applyWritesAssign(counts, ws) ==
  IF ws = <<>> THEN counts
  ELSE applyWritesAssign(
         [counts EXCEPT ![Head(ws).class + 1] = Head(ws).add], Tail(ws))

\* counts_ after the writes ws.
RECURSIVE applyWrites(_, _)
applyWrites(counts, ws) ==
  IF ws = <<>> THEN counts
  ELSE applyWrites(
         [counts EXCEPT ![Head(ws).class + 1] =
                          At(counts, Head(ws).class) + Head(ws).add],
         Tail(ws))

-----------------------------------------------------------------------------
(* generate(), lines 156-198.                                               *)

Digits == <<"0", "1", "2", "3", "4", "5", "6", "7", "8", "9">>

\* operator<<(uint64_t) of an ostream: the decimal representation.
RECURSIVE Decimal(_)
Decimal(n) ==
  IF n < 10 THEN Digits[n + 1]
  ELSE Decimal(n \div 10) \o Digits[(n % 10) + 1]

\* Lines 187-193: the text of one k-tuplet, from member v on.
RECURSIVE ktupletLoop(_, _, _, _, _)
ktupletLoop(flags, j, byteValue, v, ktuplet) ==
  IF And(j, flags) = 0
  THEN ktupletLoop(flags, 2 * j, byteValue, At(nextBitValue_, v),
                   ktuplet \o Decimal(byteValue + v) \o ", ")
  ELSE ktuplet \o Decimal(byteValue + v) \o ")\n"

\* The body of the inner loop for the entry bitValue: the branch of lines
\* 160, 167, 174 or 182 that flags selects.
emitOne(flags, byteValue, bitValue) ==
  IF And(flags, CALLBACK_PRIMES) # 0
  THEN [op |-> "callback_", prime |-> byteValue + bitValue]
  ELSE IF And(flags, CALLBACK_PRIMES_OOP) # 0
  THEN [op |-> "callbackOOP_", prime |-> byteValue + bitValue]
  ELSE IF And(flags, PRINT_PRIMES) # 0
  THEN [op |-> "cout", str |-> Decimal(byteValue + bitValue) \o "\n"]
  ELSE [op |-> "cout",
        str |-> ktupletLoop(flags, PRINT_PRIMES, byteValue, bitValue, "(")]

\* The inner loop: walk the row from slot k until END.
RECURSIVE rowLoop(_, _, _, _, _)
rowLoop(flags, byteValue, row, k, out) ==
  IF row[k + 1] # END
  THEN rowLoop(flags, byteValue, row, k + 1,
               Append(out, emitOne(flags, byteValue, row[k + 1])))
  ELSE out

\* generateLoop without "byteValue += NUMBERS_PER_BYTE".
RECURSIVE generateLoopNoAdvance(_, _, _, _, _, _, _)
generateLoopNoAdvance(flags, rows, sieve, sieveSize, i, byteValue, out) ==
  IF i < sieveSize
  THEN generateLoopNoAdvance(flags, rows, sieve, sieveSize, i + 1, byteValue,
                    rowLoop(flags, byteValue, At(rows, At(sieve, i)), 0, out))
  ELSE out

\* The outer loop: byte i, byteValue advanced by NUMBERS_PER_BYTE.
RECURSIVE generateLoop(_, _, _, _, _, _, _)
generateLoop(flags, rows, sieve, sieveSize, i, byteValue, out) ==
  IF i < sieveSize
  THEN generateLoop(flags, rows, sieve, sieveSize, i + 1,
                    byteValue + NUMBERS_PER_BYTE,
                    rowLoop(flags, byteValue, At(rows, At(sieve, i)), 0, out))
  ELSE out

generate(flags, rows, sieve, sieveSize, segmentLow) ==
  generateLoop(flags, rows, sieve, sieveSize, 0, segmentLow, <<>>)

-----------------------------------------------------------------------------
(* analyseSieve(), lines 200-206.                                           *)

\* Line 202: the call of count() and the writes it makes.
countEvents(flags, tables, sieve, sieveSize) ==
  <<[op |-> "count", sieveSize |-> sieveSize]>>
    \o countWrites(flags, tables, sieve, sieveSize)

\* Line 204: the call of generate() and what it emits.
generateEvents(flags, rows, sieve, sieveSize, segmentLow) ==
  <<[op |-> "generate", sieveSize |-> sieveSize]>>
    \o generate(flags, rows, sieve, sieveSize, segmentLow)

\* Line 205: the report to the parent.
doStatus(sieveSize) ==
  <<[op |-> "doStatus", processed |-> sieveSize * NUMBERS_PER_BYTE]>>

\* analyseSieveEvents reporting before it generates.
analyseSieveEventsReportEarly(flags, tables, rows, sieve, segmentLow) ==
  LET sieveSize == Len(sieve)
  IN (IF And(flags, COUNT_FLAGS) # 0
      THEN countEvents(flags, tables, sieve, sieveSize) ELSE <<>>)
     \o doStatus(sieveSize)
     \o (IF And(flags, GENERATE_FLAGS) # 0
         THEN generateEvents(flags, rows, sieve, sieveSize, segmentLow)
         ELSE <<>>)

\* Lines 201-205: what one call does, in program order.
analyseSieveEvents(flags, tables, rows, sieve, segmentLow) ==
  LET sieveSize == Len(sieve)
  IN (IF And(flags, COUNT_FLAGS) # 0
      THEN countEvents(flags, tables, sieve, sieveSize) ELSE <<>>)
     \o (IF And(flags, GENERATE_FLAGS) # 0
         THEN generateEvents(flags, rows, sieve, sieveSize, segmentLow)
         ELSE <<>>)
     \o doStatus(sieveSize)

\* The writes to counts_ among events.
writesOf(events) == SelectSeq(events, LAMBDA e : e.op = "counts_")

\* The calls of analyseSieve recorded in the log, in order.
calls == SelectSeq(log, LAMBDA e : e.op = "analyseSieve")

\* segmentLow is what getSegmentLow() returns during the call.
analyseSieve(sieve, segmentLow) ==
  /\ constructed
  /\ LET events == analyseSieveEvents(flags_, primeByteCounts_,
                                      primeBitValues_, sieve, segmentLow)
     IN /\ counts_' = applyWrites(counts_, writesOf(events))
        /\ log' = log \o <<[op |-> "analyseSieve", sieve |-> sieve,
                            segmentLow |-> segmentLow]>>
                      \o events
  /\ UNCHANGED <<flags_, constructed, primeByteCounts_, primeBitValues_>>
  /\ UNCHANGED threadVars

-----------------------------------------------------------------------------
(* The sequential specification: one finder, a few segments analysed.      *)

MaxCalls == 2

Configs ==
  { COUNT_PRIMES,
    COUNT_FLAGS,
    COUNT_PRIMES + Shl(COUNT_PRIMES, 1) + PRINT_PRIMES,
    PRINT_PRIMES,
    PRINT_PRIMES + Shl(PRINT_PRIMES, 2),
    Shl(PRINT_PRIMES, 1),
    Shl(PRINT_PRIMES, 2),
    Shl(PRINT_PRIMES, 3),
    Shl(PRINT_PRIMES, 4),
    Shl(PRINT_PRIMES, 5),
    Shl(PRINT_PRIMES, 6),
    Shl(COUNT_PRIMES, 1) + Shl(PRINT_PRIMES, 1) + Shl(PRINT_PRIMES, 3),
    COUNT_FLAGS + Shl(PRINT_PRIMES, 6),
    CALLBACK_PRIMES,
    CALLBACK_PRIMES_OOP }

Segments ==
  { <<>>, <<3>>, <<6>>, <<255, 30>>, <<0, 63, 254>> }

SegmentLows == {0, 7 * NUMBERS_PER_BYTE}

Init == InitFinder(Configs)

Next ==
  \/ \E hw \in BOOLEAN : PrimeNumberFinder(hw)
  \/ \E sieve \in Segments, segmentLow \in SegmentLows :
       /\ Len(calls) < MaxCalls
       /\ analyseSieve(sieve, segmentLow)

Spec == Init /\ [][Next]_vars

-----------------------------------------------------------------------------
(* Long segments for the chunked counting of lines 129-137: each finder    *)
(* analyses one segment, once or twice.                                     *)

MaxLen == 25

ChunkConfigs ==
  { COUNT_PRIMES, COUNT_PRIMES + Shl(COUNT_PRIMES, 1), COUNT_FLAGS }

\* Byte k (from 0) of the segment is first + k * step, modulo 256.
RampSegment(len, first, step) ==
  [k \in 1..len |-> (first + (k - 1) * step) % BYTE_SIZE]

LongSegments ==
  { RampSegment(len, fs[1], fs[2]) :
      len \in 0..MaxLen, fs \in {<<255, 0>>, <<1, 37>>, <<170, 85>>, <<0, 1>>} }

InitChunks == InitFinder(ChunkConfigs)

NextChunks ==
  \/ \E hw \in BOOLEAN : PrimeNumberFinder(hw)
  \/ \E sieve \in LongSegments :
       /\ Len(calls) < 2
       /\ calls # <<>> => sieve = calls[1].sieve
       /\ analyseSieve(sieve, 0)

SpecChunks == InitChunks /\ [][NextChunks]_vars

-----------------------------------------------------------------------------
(* Two threads in count(), each on its own segment.  "counts_[i] += n" of  *)
(* lines 138 and 147 is a load and a store with nothing between them to    *)
(* keep another thread out.  The threads either share one PrimeSieve, so   *)
(* one counts_, or have one each, merged by the caller when both are done. *)

Threads == {1, 2}

ThreadConfigs ==
  { COUNT_PRIMES, COUNT_PRIMES + Shl(COUNT_PRIMES, 1), COUNT_FLAGS }

ThreadSegments == { <<3>>, <<6>>, <<255, 30>>, <<0, 63, 254>> }

\* The counts_ instance thread t adds to.
instanceOf(t) == IF shared THEN 1 ELSE t

\* The class thread t is at, and what its call adds to it.
classAt(t) == countedClasses(flags_)[tclass[t]]

addAt(t) == countAdded(flags_, primeByteCounts_, classAt(t), tseg[t], Len(tseg[t]))

\* The load of "counts_[i] += n".
ThreadLoad(t) ==
  /\ tpc[t] = "load"
  /\ treg' = [treg EXCEPT ![t] = At(tcounts[instanceOf(t)], classAt(t))]
  /\ tpc' = [tpc EXCEPT ![t] = "store"]
  /\ UNCHANGED <<shared, tseg, tclass, tcounts, merged>>
  /\ UNCHANGED finderVars

\* The store of "counts_[i] += n", then on to the next enabled class.
ThreadStore(t) ==
  /\ tpc[t] = "store"
  /\ tcounts' = [tcounts EXCEPT ![instanceOf(t)][classAt(t) + 1] = treg[t] + addAt(t)]
  /\ IF tclass[t] < Len(countedClasses(flags_))
     THEN /\ tclass' = [tclass EXCEPT ![t] = tclass[t] + 1]
          /\ tpc' = [tpc EXCEPT ![t] = "load"]
     ELSE /\ tclass' = tclass
          /\ tpc' = [tpc EXCEPT ![t] = "done"]
  /\ UNCHANGED <<shared, tseg, treg, merged>>
  /\ UNCHANGED finderVars

\* The caller, once both threads have returned: the totals of the run.
MergeTotals ==
  /\ \A t \in Threads : tpc[t] = "done"
  /\ merged = <<>>
  /\ merged' = IF shared THEN tcounts[1]
               ELSE [i \in 1..COUNTS_SIZE |-> tcounts[1][i] + tcounts[2][i]]
  /\ UNCHANGED <<shared, tseg, tpc, tclass, treg, tcounts>>
  /\ UNCHANGED finderVars

InitThreads ==
  /\ \E f \in ThreadConfigs, hw \in BOOLEAN :
       flags_ = IF hw THEN Or(f, SSE4_POPCNT) ELSE f
  /\ constructed = TRUE
  /\ primeByteCounts_ = buildPrimeByteCounts(flags_)
  /\ primeBitValues_ = buildPrimeBitValues(flags_)
  /\ counts_ = [i \in 1..COUNTS_SIZE |-> 0]
  /\ log = <<>>
  /\ shared \in BOOLEAN
  /\ tseg \in [Threads -> ThreadSegments]
  /\ tpc = [t \in Threads |-> "load"]
  /\ tclass = [t \in Threads |-> 1]
  /\ treg = [t \in Threads |-> 0]
  /\ tcounts = IF shared
               THEN <<[i \in 1..COUNTS_SIZE |-> 0]>>
               ELSE <<[i \in 1..COUNTS_SIZE |-> 0], [i \in 1..COUNTS_SIZE |-> 0]>>
  /\ merged = <<>>

NextThreads ==
  \/ \E t \in Threads : ThreadLoad(t)
  \/ \E t \in Threads : ThreadStore(t)
  \/ MergeTotals

SpecThreads == InitThreads /\ [][NextThreads]_vars

-----------------------------------------------------------------------------
(* What the tables are meant to hold, stated on the bits of the bytes.     *)

\* Bit number "slot" (0..7) of a byte is set.
SlotSet(byte, slot) == Bits(byte)[slot + 1] = 1

\* Every bit of pattern p is set in byte j.
Contains(j, p) == \A slot \in 0..7 : SlotSet(p, slot) => SlotSet(j, slot)

\* The set bits of a byte, ascending.
SlotsOf(byte) == SelectSeq([k \in 1..8 |-> k - 1], LAMBDA slot : SlotSet(byte, slot))

\* The patterns of class c: the elements of its catalogue row before END.
PatternList(c) == SelectSeq(bitmasks[c + 1], LAMBDA p : p # 0 /\ p # END)

\* Flag bit number n of flags is set.
FlagSet(flags, n) == (flags \div Shl(1, n)) % 2 = 1

CountingEnabled(flags, c) == FlagSet(flags, c)

PrintEnabled(flags, c) == FlagSet(flags, COUNTS_SIZE + c)

CallbackEnabled(flags) == FlagSet(flags, 20) \/ FlagSet(flags, 21)

GenerationEnabled(flags) ==
  CallbackEnabled(flags) \/ \E c \in Ladder : PrintEnabled(flags, c)

\* The class the value-sequence table is for: the lowest print class, and
\* Prime when only a callback is wired.
ActiveClass(flags) ==
  IF \E c \in Ladder : PrintEnabled(flags, c)
  THEN CHOOSE c \in Ladder :
         /\ PrintEnabled(flags, c)
         /\ \A d \in Ladder : PrintEnabled(flags, d) => c <= d
  ELSE 0

ContainedPatterns(c, byte) ==
  SelectSeq(PatternList(c), LAMBDA p : Contains(byte, p))

Bytes == 0..255

\* The tables below are indexed like the arrays of the code, from 0.
ExpectedCounts ==
  [c \in Ladder |-> [j \in Bytes |-> Len(ContainedPatterns(c, j))]]

SetBitCounts == [j \in Bytes |-> Len(SlotsOf(j))]

TwinCounts ==
  [j \in Bytes |-> Cardinality({p \in {6, 24, 192} : Contains(j, p)})]

\* primeByteCounts_[c][j], primeBitValues_[i] and counts_[c] of the code.
CountOf(c, j) == primeByteCounts_[c + 1][j + 1]

RowOf(i) == primeBitValues_[i + 1]

Counter(c) == counts_[c + 1]

ExpectedRow(c, byte) ==
  LET ps == ContainedPatterns(c, byte)
  IN [k \in 1..Len(ps) |-> bitValues_[SlotsOf(ps[k])[1] + 1]] \o <<END>>

ExpectedRows ==
  [c \in Ladder |-> [i \in Bytes |-> ExpectedRow(c, i)]]

\* C1: after initLookupTables every enabled class's count table holds, for
\* every byte value j, the number of patterns of the class contained in j:
\* the early exit skips none.  The Prime table is the number of set bits,
\* the Twin table the number of 0x06, 0x18, 0xc0 contained, byte 0 counts 0
\* in every class, byte 0xFF counts 8 primes and 1 septuplet.
C1_CountTables ==
  constructed =>
    \A c \in Ladder :
      CountingEnabled(flags_, c) =>
        /\ \A j \in Bytes : CountOf(c, j) = ExpectedCounts[c][j]
        /\ CountOf(c, 0) = 0
        /\ c = 0 => /\ \A j \in Bytes : CountOf(c, j) = SetBitCounts[j]
                    /\ CountOf(c, 255) = 8
        /\ c = 1 => \A j \in Bytes : CountOf(c, j) = TwinCounts[j]
        /\ c = 6 => CountOf(c, 255) = 1

C1_Witness ==
  /\ constructed
  /\ CountingEnabled(flags_, 0)
  /\ CountingEnabled(flags_, 6)
  /\ CountOf(0, 255) = 8
  /\ CountOf(6, 255) = 1
  /\ CountOf(6, 127) = 0

\* C3: with a generation mode enabled, the row of every byte value i holds,
\* for each pattern of the active class contained in i, in list order, the
\* offset of the pattern's lowest set bit, then END.  With the Prime class a
\* byte with the single bit p has the row <<offset(p), END>>; byte 0 has
\* the row <<END>>.
C3_ValueRows ==
  (constructed /\ GenerationEnabled(flags_)) =>
    LET expected == ExpectedRows[ActiveClass(flags_)]
    IN /\ \A i \in Bytes : RowOf(i) = expected[i]
       /\ RowOf(0) = <<END>>
       /\ ActiveClass(flags_) = 0 =>
            \A slot \in 0..7 :
              RowOf(Shl(1, slot)) = <<bitValues_[slot + 1], END>>

C3_Witness ==
  /\ constructed
  /\ PrintEnabled(flags_, 1)
  /\ ActiveClass(flags_) = 1
  /\ RowOf(222) = <<11, 17, 29, END>>

\* C6: every row of the value-sequence table lists its entries in strictly
\* ascending order and takes at most 9 slots with its END, so the write
\* index stays within 0..8.
C6_RowsAscending ==
  (constructed /\ GenerationEnabled(flags_)) =>
    \A i \in Bytes :
      LET row == RowOf(i)
      IN /\ Len(row) - 1 <= 8
         /\ row[Len(row)] = END
         /\ \A k \in 1..(Len(row) - 1) :
              /\ row[k] < END
              /\ k > 1 => row[k - 1] < row[k]

C6_Witness ==
  /\ constructed
  /\ GenerationEnabled(flags_)
  /\ ActiveClass(flags_) = 0
  /\ Len(RowOf(255)) = 9
  /\ Len(RowOf(0)) = 1

-----------------------------------------------------------------------------
(* The log, call by call.                                                   *)

RECURSIVE Flatten(_)
Flatten(ss) == IF ss = <<>> THEN <<>> ELSE Head(ss) \o Flatten(Tail(ss))

RECURSIVE SumSeq(_)
SumSeq(ns) == IF ns = <<>> THEN 0 ELSE Head(ns) + SumSeq(Tail(ns))

\* Where the calls start in the log.
CallStarts ==
  SelectSeq([n \in 1..Len(log) |-> n], LAMBDA n : log[n].op = "analyseSieve")

\* What call k did: the log after its start, up to the next call.
EventsOfCall(k) ==
  SubSeq(log, CallStarts[k] + 1,
         IF k < Len(CallStarts) THEN CallStarts[k + 1] - 1 ELSE Len(log))

EmitOps == {"callback_", "callbackOOP_", "cout"}

\* What call k handed to a callback or wrote to std::cout.
EmittedBy(k) == SelectSeq(EventsOfCall(k), LAMBDA e : e.op \in EmitOps)

PopcntEnabled(flags) == FlagSet(flags, 22)

\* The sum over the bytes of a segment of the count table of class c.
TableSum(c, sieve) ==
  SumSeq([n \in 1..Len(sieve) |-> CountOf(c, sieve[n])])

\* C2: with the fast path enabled, what count() adds to counts_[0] for a
\* segment of any length is what the per-byte table alone adds.
C2_PopcntEqualsTable ==
  \A k \in 1..Len(calls) :
    (CountingEnabled(flags_, 0) /\ PopcntEnabled(flags_)) =>
      LET sieve == calls[k].sieve
          ws == SelectSeq(EventsOfCall(k),
                          LAMBDA e : e.op = "counts_" /\ e.class = 0)
      IN /\ Len(ws) = 1
         /\ ws[1].add = tableLoop(primeByteCounts_[1], sieve, Len(sieve), 0, 0)
         /\ ws[1].add = SumSeq([n \in 1..Len(sieve) |-> SetBitCounts[sieve[n]]])

C2_Witness ==
  /\ PopcntEnabled(flags_)
  /\ CountingEnabled(flags_, 0)
  /\ Len(calls) = 1
  /\ Len(calls[1].sieve) = 24
  /\ Counter(0) = 192

\* The bytes of call k's segment left to the table loop of lines 136-137.
TailBytes(k) ==
  LET sieve == calls[k].sieve
  IN Len(sieve) - afterPopcnt(flags_, sieve, Len(sieve))[1]

\* C9 as stated: with the fast path, the table loop handles 1 to 7 bytes of
\* every segment of length >= 1.
C9_TailAtMost7 ==
  \A k \in 1..Len(calls) :
    (CountingEnabled(flags_, 0) /\ PopcntEnabled(flags_)
       /\ Len(calls[k].sieve) >= 1) =>
      TailBytes(k) \in 1..7

\* C9 as the code has it: with the fast path, the table loop handles 1 to 8
\* bytes of every segment of length L >= 1: L mod 8 of them, and 8 when L is
\* a multiple of 8.
C9_TailAtMost8 ==
  \A k \in 1..Len(calls) :
    (CountingEnabled(flags_, 0) /\ PopcntEnabled(flags_)
       /\ Len(calls[k].sieve) >= 1) =>
      /\ TailBytes(k) \in 1..8
      /\ TailBytes(k) = IF Len(calls[k].sieve) % 8 = 0 THEN 8
                        ELSE Len(calls[k].sieve) % 8

C9_Witness ==
  /\ PopcntEnabled(flags_)
  /\ CountingEnabled(flags_, 0)
  /\ Len(calls) = 1
  /\ Len(calls[1].sieve) = 16
  /\ TailBytes(1) = 8
  /\ SelectSeq(log, LAMBDA e : e.op = "counts_")[1].add = Counter(0)

\* C7: every call adds to the counter of each enabled class the sum of the
\* class's count table over the bytes of the segment, whatever the counter
\* held, and leaves the other counters alone; two calls on one segment leave
\* twice what one call adds.
C7_CountAdds ==
  /\ \A c \in Ladder :
       Counter(c) =
         IF CountingEnabled(flags_, c)
         THEN SumSeq([k \in 1..Len(calls) |-> TableSum(c, calls[k].sieve)])
         ELSE 0
  /\ \A k \in 1..Len(calls) :
       writesOf(EventsOfCall(k)) =
         LET cs == SelectSeq([n \in 1..7 |-> n - 1],
                             LAMBDA c : CountingEnabled(flags_, c))
         IN [n \in 1..Len(cs) |->
               [op |-> "counts_", class |-> cs[n],
                add |-> TableSum(cs[n], calls[k].sieve)]]
  /\ (Len(calls) = 2 /\ calls[1].sieve = calls[2].sieve) =>
       \A c \in Ladder :
         CountingEnabled(flags_, c) =>
           Counter(c) = 2 * TableSum(c, calls[1].sieve)

C7_Witness ==
  /\ Len(calls) = 2
  /\ calls[1].sieve = [n \in 1..17 |-> 255]
  /\ calls[2].sieve = calls[1].sieve
  /\ PopcntEnabled(flags_)
  /\ CountingEnabled(flags_, 0)
  /\ CountingEnabled(flags_, 1)
  /\ ~CountingEnabled(flags_, 2)
  /\ Counter(0) = 272
  /\ Counter(1) = 102
  /\ Counter(2) = 0

\* C8: every call makes one report, of 30 times the segment length, after
\* its counting and its emission; count() runs iff a counting flag is set,
\* generate() iff a generation flag is set, count() first; n calls make n
\* reports, in call order.
C8_OneReportPerCall ==
  /\ SelectSeq(log, LAMBDA e : e.op = "doStatus")
       = [k \in 1..Len(calls) |->
            [op |-> "doStatus", processed |-> Len(calls[k].sieve) * 30]]
  /\ \A k \in 1..Len(calls) :
       LET ev == EventsOfCall(k)
           last == Len(ev)
       IN /\ last >= 1
          /\ ev[last] = [op |-> "doStatus",
                         processed |-> Len(calls[k].sieve) * 30]
          /\ \A n \in 1..(last - 1) : ev[n].op # "doStatus"
          /\ (\E n \in 1..last : ev[n].op = "count")
               <=> (\E c \in Ladder : CountingEnabled(flags_, c))
          /\ (\E n \in 1..last : ev[n].op = "counts_")
               <=> (\E c \in Ladder : CountingEnabled(flags_, c))
          /\ (\E n \in 1..last : ev[n].op = "generate")
               <=> GenerationEnabled(flags_)
          /\ (\E n \in 1..last : ev[n].op \in EmitOps)
               => GenerationEnabled(flags_)
          /\ \A m, n \in 1..last :
               (ev[m].op \in {"count", "counts_"}
                  /\ ev[n].op \in EmitOps \cup {"generate"}) => m < n

C8_Witness ==
  /\ Len(calls) = 2
  /\ calls[1].sieve = <<255, 30>>
  /\ calls[2].sieve = <<3>>
  /\ CountingEnabled(flags_, 0)
  /\ PrintEnabled(flags_, 0)
  /\ SelectSeq(log, LAMBDA e : e.op = "doStatus")
       = <<[op |-> "doStatus", processed |-> 60],
           [op |-> "doStatus", processed |-> 30]>>
  /\ log[Len(log)].op = "doStatus"
  /\ log[Len(log) - 1].op = "cout"

-----------------------------------------------------------------------------
(* Emission.                                                                *)

PlainMode(flags) == CallbackEnabled(flags) \/ PrintEnabled(flags, 0)

TupletMode(flags) == GenerationEnabled(flags) /\ ~PlainMode(flags)

\* The entries of a row before its END.
EntriesOf(row) == SubSeq(row, 1, Len(row) - 1)

\* The values call k is to emit in a plain-prime mode: S + 30 * i + e for
\* byte i ascending and entry e of its row, in row order.
PlainValues(k) ==
  LET sieve == calls[k].sieve
      S == calls[k].segmentLow
  IN Flatten([n \in 1..Len(sieve) |->
                LET es == EntriesOf(RowOf(sieve[n]))
                IN [m \in 1..Len(es) |-> S + 30 * (n - 1) + es[m]]])

\* How the active plain-prime mode hands over the value v.
PlainEmission(flags, v) ==
  IF FlagSet(flags, 20) THEN [op |-> "callback_", prime |-> v]
  ELSE IF FlagSet(flags, 21) THEN [op |-> "callbackOOP_", prime |-> v]
  ELSE [op |-> "cout", str |-> Decimal(v) \o "\n"]

StrictlyAscending(vs) == \A n \in 2..Len(vs) : vs[n - 1] < vs[n]

\* C5: in each plain-prime mode a call emits exactly S + 30 * i + e for the
\* bytes i in ascending order and the entries e of the byte's row in row
\* order, so a strictly ascending sequence; segment <<0x03>> at S = 0 gives
\* 7 then 11.
C5_PlainEmission ==
  PlainMode(flags_) =>
    \A k \in 1..Len(calls) :
      LET vs == PlainValues(k)
          out == EmittedBy(k)
      IN /\ out = [n \in 1..Len(vs) |-> PlainEmission(flags_, vs[n])]
         /\ StrictlyAscending(vs)
         /\ CallbackEnabled(flags_) =>
              StrictlyAscending([n \in 1..Len(out) |-> out[n].prime])
         /\ (calls[k].sieve = <<3>> /\ calls[k].segmentLow = 0) =>
              /\ vs = <<7, 11>>
              /\ (~CallbackEnabled(flags_) /\ PrintEnabled(flags_, 0)) =>
                   out = <<[op |-> "cout", str |-> "7\n"],
                           [op |-> "cout", str |-> "11\n"]>>
         /\ (calls[k].sieve = <<3>> /\ calls[k].segmentLow = 210
               /\ ~CallbackEnabled(flags_) /\ PrintEnabled(flags_, 0)) =>
              out = <<[op |-> "cout", str |-> "217\n"],
                      [op |-> "cout", str |-> "221\n"]>>

C5_Witness ==
  /\ FlagSet(flags_, 20)
  /\ Len(calls) >= 1
  /\ calls[1].sieve = <<255, 30>>
  /\ calls[1].segmentLow = 210
  /\ Len(EmittedBy(1)) = 12
  /\ EmittedBy(1)[8] = [op |-> "callback_", prime |-> 241]
  /\ EmittedBy(1)[9] = [op |-> "callback_", prime |-> 251]

RECURSIVE JoinDecimal(_)
JoinDecimal(vs) ==
  IF Len(vs) = 1 THEN Decimal(vs[1])
  ELSE Decimal(vs[1]) \o ", " \o JoinDecimal(Tail(vs))

\* The line of the tuplet that pattern p marks in the byte at byteValue: the
\* offsets of the set bits of p, ascending.
TupletLine(byteValue, p) ==
  LET slots == SlotsOf(p)
  IN "(" \o JoinDecimal([n \in 1..Len(slots) |->
                           byteValue + bitValues_[slots[n] + 1]]) \o ")\n"

TupletLines(k) ==
  LET sieve == calls[k].sieve
      S == calls[k].segmentLow
      c == ActiveClass(flags_)
  IN Flatten([n \in 1..Len(sieve) |->
                LET ps == ContainedPatterns(c, sieve[n])
                IN [m \in 1..Len(ps) |->
                      [op |-> "cout",
                       str |-> TupletLine(S + 30 * (n - 1), ps[m])]]])

\* C4: in tuplet text emission for a class of N members, a call writes one
\* line "(v1, ..., vN)\n" per row entry of each byte, in order; the members
\* are the offsets of the set bits of the matched pattern, ascending, past
\* the byte's value, and there are N of them.  Segment <<0x06>> with twin
\* generation at segment low 0 writes "(11, 13)\n".
C4_TupletEmission ==
  (constructed /\ TupletMode(flags_)) =>
    /\ \A p \in {PatternList(ActiveClass(flags_))[n] :
                   n \in 1..Len(PatternList(ActiveClass(flags_)))} :
         Len(SlotsOf(p)) = ActiveClass(flags_) + 1
    /\ \A k \in 1..Len(calls) :
         /\ EmittedBy(k) = TupletLines(k)
         /\ Len(EmittedBy(k))
              = SumSeq([n \in 1..Len(calls[k].sieve) |->
                          Len(RowOf(calls[k].sieve[n])) - 1])
         /\ (calls[k].sieve = <<6>> /\ calls[k].segmentLow = 0
               /\ ActiveClass(flags_) = 1) =>
              EmittedBy(k) = <<[op |-> "cout", str |-> "(11, 13)\n"]>>

C4_Witness ==
  /\ TupletMode(flags_)
  /\ ActiveClass(flags_) = 6
  /\ Len(calls) >= 1
  /\ calls[1].sieve = <<0, 63, 254>>
  /\ calls[1].segmentLow = 210
  /\ EmittedBy(1)
       = <<[op |-> "cout", str |-> "(281, 283, 287, 289, 293, 299, 301)\n"]>>

-----------------------------------------------------------------------------
(* Concurrent counting.                                                     *)

\* What the count tables give for the segment of thread t in class c.
ThreadTotal(c, t) ==
  IF CountingEnabled(flags_, c) THEN TableSum(c, tseg[t]) ELSE 0

\* C10: with one counts_ instance for both threads an addition can be lost,
\* so the final counter is one thread's total or the sum of both, and a run
\* that ends below the sum exists; with an instance per thread, merged when
\* both are done, the total is always the sum.
C10_SharedLosesOwnSums ==
  merged # <<>> =>
    \A c \in Ladder :
      /\ ~shared => merged[c + 1] = ThreadTotal(c, 1) + ThreadTotal(c, 2)
      /\ shared => merged[c + 1] \in { ThreadTotal(c, 1), ThreadTotal(c, 2),
                                       ThreadTotal(c, 1) + ThreadTotal(c, 2) }

\* Both threads are done on one shared counts_ and an addition is missing.
C10_Witness ==
  /\ shared
  /\ merged # <<>>
  /\ tseg[1] = <<255, 30>>
  /\ tseg[2] = <<3>>
  /\ merged[1] = 12
  /\ ThreadTotal(0, 1) + ThreadTotal(0, 2) = 14

====
